---- MODULE Spec2Model ----
(***************************************************************************)
(* Model of apply_tags.py: a one-shot patcher that loads screenshot.rs,    *)
(* applies four ordered regular-expression rewrites to the text buffer and *)
(* writes the buffer back to the same path.                                *)
(*                                                                         *)
(* The buffer is a sequence of tokens.  A token is a maximal chunk of text *)
(* that the script's patterns read as a unit:                              *)
(*   PUBSTRUCT  "pub struct "            SHOT      "Screenshot {"          *)
(*   OTHERNAME  "Recording {"            FIELD     any other field text    *)
(*   TSU64      "pub timestamp: u64,"    NLCLOSE   newline + "}" (column 0)*)
(*   TAGSDECL   "\n    pub tags: Vec<String>,"                             *)
(*   GETHDR     "pub fn get_screenshots(game_exe: String) -> ... {"        *)
(*   LETDIR     "let dir = screenshots_dir(&game_exe);"                    *)
(*   IFNOT      "if !dir.exists() {"     RETOK     "return Ok(vec![]);"    *)
(*   RETERR     "return Err(...);"       RBRACE    "}" (not at column 0)   *)
(*   METAPATH   "let meta_path = dir.join(\"tags.json\");"                 *)
(*   ALLTAGS    "let all_tags: ... = if meta_path.exists() {...};"         *)
(*   MUTALLTAGS "let mut all_tags: ... = if meta_path.exists() {...};"     *)
(*   PATH       "path: path_str,"        PATHX     "path: <other expr>,"   *)
(*   FILENAME   "filename,"              TIMESTAMP "timestamp,"            *)
(*   TAGS       "tags,"                  CODE      any other statement     *)
(*   LOOKUP     "let tags = all_tags.get(&filename).cloned()               *)
(*                 .unwrap_or_default();"                                  *)
(*   OKP        "Ok("                    RPAREN    ")"                     *)
(*   TSNOW      "timestamp: now,"        TAGSINIT  "\n        tags: vec![],"*)
(*   TAGSINIT12 "\n            tags: vec![],"  (twelve blanks)             *)
(*   SAVEHDR    "#[tauri::command]\npub fn save_screenshot_tags(...) {"    *)
(*   SAVEWRITE  the insert / to_string_pretty / write / Ok(()) statements  *)
(*   ANCHOR     "#[tauri::command]\npub fn open_screenshots_folder"        *)
(*   WS         a run of white space                                       *)
(* Two adjacent tokens are adjacent in the text; white space between two   *)
(* chunks is a WS token.                                                   *)
(***************************************************************************)
EXTENDS Naturals, Sequences, FiniteSets, TLC

\* ------------------------------------------------------------------ bounds
MaxRuns == 3
MaxSites == 2
MaxPieces == 4

\* ------------------------------------------------------------ sequence help
Min(S) == CHOOSE x \in S : \A y \in S : x <= y

Occurrences(s, t) == {i \in 1..Len(s) : s[i] = t}

Count(s, t) == Cardinality(Occurrences(s, t))

\* the index of the first token at or after i that is not white space (\s*)
RECURSIVE SkipWs(_, _)
SkipWs(s, i) == IF i <= Len(s) /\ s[i] = "WS" THEN SkipWs(s, i + 1) ELSE i

\* "\}" matches the brace of RBRACE and the brace of NLCLOSE
IsBrace(t) == t \in {"RBRACE", "NLCLOSE"}

\* --------------------------------------------------- stage 1: struct re.sub
\* "pub struct Screenshot \{" at i
StructAt(s, i) == i + 1 <= Len(s) /\ s[i] = "PUBSTRUCT" /\ s[i + 1] = "SHOT"

\* the places where "pub timestamp: u64," is directly followed by "\n}",
\* anywhere after the struct header at i (".*?" with DOTALL crosses lines)
StructEnds(s, i) ==
    {j \in (i + 2)..(Len(s) - 1) : s[j] = "TSU64" /\ s[j + 1] = "NLCLOSE"}

StructStarts(s, from) ==
    {i \in from..Len(s) : StructAt(s, i) /\ StructEnds(s, i) # {}}

\* re.sub over every non-overlapping match, leftmost first, each match as
\* short as possible: group 1, the new declaration, group 2.
RECURSIVE SubStruct(_, _)
SubStruct(s, from) ==
    IF StructStarts(s, from) = {}
    THEN SubSeq(s, from, Len(s))
    ELSE LET i == Min(StructStarts(s, from))
             j == Min(StructEnds(s, i))
         IN  SubSeq(s, from, j) \o <<"TAGSDECL", "NLCLOSE">> \o SubStruct(s, j + 2)

\* variant: a greedy ".*", which runs to the last "pub timestamp: u64,\n}"
Max(S) == CHOOSE x \in S : \A y \in S : x >= y

UpdateStructGreedy(content) ==
    IF StructStarts(content, 1) = {} THEN content
    ELSE LET j == Max(StructEnds(content, Min(StructStarts(content, 1))))
         IN  SubSeq(content, 1, j) \o <<"TAGSDECL">>
                \o SubSeq(content, j + 1, Len(content))

UpdateStruct(content) == SubStruct(content, 1)

\* variant: an injection that itself holds a construction of Screenshot
InjectionWithSite ==
    <<"WS", "LETDIR", "WS", "IFNOT", "WS", "RETOK", "WS", "RBRACE",
      "WS", "METAPATH", "WS", "ALLTAGS", "WS",
      "SHOT", "FILENAME", "TIMESTAMP", "WS", "RBRACE", "WS">>

\* ------------------------------------------- stage 2: replace_get_screenshots
\* the text put in place of the directory guard (lines 25-38)
Injection ==
    <<"WS", "LETDIR", "WS", "IFNOT", "WS", "RETOK", "WS", "RBRACE",
      "WS", "METAPATH", "WS", "ALLTAGS", "WS">>

\* the guard pattern of line 40 at i: the index of its closing brace, else 0
GuardEnd(s, i) ==
    IF i > Len(s) \/ s[i] # "LETDIR" THEN 0
    ELSE LET a == SkipWs(s, i + 1) IN
         IF a > Len(s) \/ s[a] # "IFNOT" THEN 0
         ELSE LET b == SkipWs(s, a + 1) IN
              IF b > Len(s) \/ s[b] # "RETOK" THEN 0
              ELSE LET c == SkipWs(s, b + 1) IN
                   IF c > Len(s) \/ ~IsBrace(s[c]) THEN 0 ELSE c

GuardStarts(s, from) == {i \in from..Len(s) : GuardEnd(s, i) # 0}

\* re.sub(guard, injection, body).  The injection ends in a line break, so a
\* "}" that follows the guard with nothing in between comes to stand at column 0.
RECURSIVE SubGuard(_, _)
SubGuard(s, from) ==
    IF GuardStarts(s, from) = {}
    THEN SubSeq(s, from, Len(s))
    ELSE LET i == Min(GuardStarts(s, from))
             e == GuardEnd(s, i)
         IN  IF e + 1 <= Len(s) /\ s[e + 1] = "RBRACE"
             THEN SubSeq(s, from, i - 1) \o SubSeq(Injection, 1, Len(Injection) - 1)
                     \o <<"NLCLOSE">> \o SubGuard(s, e + 2)
             ELSE SubSeq(s, from, i - 1) \o Injection \o SubGuard(s, e + 1)

\* the construction pattern of line 41, "Screenshot \{.*?filename,.*?timestamp,(\s*)\}":
\* the "timestamp," tokens after j that only white space separates from a brace
ConsTs(s, j) ==
    {l \in (j + 1)..Len(s) :
        /\ s[l] = "TIMESTAMP"
        /\ SkipWs(s, l + 1) <= Len(s)
        /\ IsBrace(s[SkipWs(s, l + 1)])}

ConsFilenames(s, i) == {j \in (i + 1)..Len(s) : s[j] = "FILENAME"}

\* a match starts at a "Screenshot {" that some "filename," and a closing
\* "timestamp, }" follow; each ".*?" stops at the first place that lets the rest match
ConsStarts(s, from) ==
    {i \in from..Len(s) :
        /\ s[i] = "SHOT"
        /\ ConsFilenames(s, i) # {}
        /\ ConsTs(s, Min(ConsFilenames(s, i))) # {}}

ConsTsOf(s, i) == Min(ConsTs(s, Min(ConsFilenames(s, i))))

\* the replacement template of line 41; ws is group 1
Construction(ws) ==
    <<"LOOKUP", "WS", "SHOT", "WS", "PATH", "WS", "FILENAME", "WS",
      "TIMESTAMP", "WS", "TAGS">> \o ws \o <<"RBRACE">>

RECURSIVE SubCons(_, _)
SubCons(s, from) ==
    IF ConsStarts(s, from) = {}
    THEN SubSeq(s, from, Len(s))
    ELSE LET i == Min(ConsStarts(s, from))
             l == ConsTsOf(s, i)
             e == SkipWs(s, l + 1)
         IN  SubSeq(s, from, i - 1) \o Construction(SubSeq(s, l + 1, e - 1))
                \o SubCons(s, e + 1)

\* variant: the guard is only replaced while no metadata load is in the body
NewBodyGuarded(body) ==
    IF Count(body, "METAPATH") > 0
    THEN SubCons(body, 1)
    ELSE SubCons(SubGuard(body, 1), 1)

NewBody(body) == SubCons(SubGuard(body, 1), 1)

\* get_screenshots_pattern (line 18): the header at i and the first "\n}" after it
GetEnds(s, i) == {j \in (i + 1)..Len(s) : s[j] = "NLCLOSE"}

GetStarts(s, from) == {i \in from..Len(s) : s[i] = "GETHDR" /\ GetEnds(s, i) # {}}

Body(s, i) == SubSeq(s, i + 1, Min(GetEnds(s, i)) - 1)

RECURSIVE SubGet(_, _)
SubGet(s, from) ==
    IF GetStarts(s, from) = {}
    THEN SubSeq(s, from, Len(s))
    ELSE LET i == Min(GetStarts(s, from))
             j == Min(GetEnds(s, i))
         IN  SubSeq(s, from, i) \o NewBody(Body(s, i)) \o <<"NLCLOSE">>
                \o SubGet(s, j + 1)

UpdateGetScreenshots(content) == SubGet(content, 1)

\* ------------------------------------------ stage 3: save_screenshot_tags
\* save_cmd (lines 48-70)
save_cmd ==
    <<"WS", "SAVEHDR", "WS", "LETDIR", "WS", "IFNOT", "WS", "RETERR", "WS",
      "RBRACE", "WS", "METAPATH", "WS", "MUTALLTAGS", "WS", "SAVEWRITE",
      "NLCLOSE", "WS">>

\* variant: no presence guard
SaveAlwaysAbsent(content) == TRUE

\* "pub fn save_screenshot_tags" not in content
SaveAbsent(content) == Count(content, "SAVEHDR") = 0

\* str.replace(anchor, save_cmd + "\n" + anchor): every occurrence
RECURSIVE ReplaceAnchor(_, _)
ReplaceAnchor(s, from) ==
    IF {k \in from..Len(s) : s[k] = "ANCHOR"} = {}
    THEN SubSeq(s, from, Len(s))
    ELSE LET i == Min({k \in from..Len(s) : s[k] = "ANCHOR"})
         IN  SubSeq(s, from, i - 1) \o save_cmd \o <<"WS", "ANCHOR">>
                \o ReplaceAnchor(s, i + 1)

\* variant: with no anchor to put it in front of, save_cmd goes to the end
InsertSaveCmdOrAppend(content) ==
    IF Count(content, "SAVEHDR") # 0 THEN content
    ELSE IF Count(content, "ANCHOR") = 0 THEN content \o save_cmd
         ELSE ReplaceAnchor(content, 1)

InsertSaveCmd(content) ==
    IF SaveAbsent(content) THEN ReplaceAnchor(content, 1) ELSE content

\* --------------------------------------------- stage 4: other constructions
\* "Ok\(Screenshot \{" at i
OkAt(s, i) == i + 1 <= Len(s) /\ s[i] = "OKP" /\ s[i + 1] = "SHOT"

OkNows(s, i) == {j \in (i + 2)..Len(s) : s[j] = "TSNOW"}

\* "\}\)" after j
OkEnds(s, j) ==
    {l \in (j + 1)..(Len(s) - 1) : IsBrace(s[l]) /\ s[l + 1] = "RPAREN"}

OkStarts(s, from) ==
    {i \in from..Len(s) :
        /\ OkAt(s, i)
        /\ OkNows(s, i) # {}
        /\ OkEnds(s, Min(OkNows(s, i))) # {}}

OkEndOf(s, i) == Min(OkEnds(s, Min(OkNows(s, i)))) + 1

\* fix_other_screenshots (lines 76-77): str.replace inside the matched text
RECURSIVE AddDefaults(_)
AddDefaults(m) ==
    IF m = <<>> THEN <<>>
    ELSE IF Head(m) = "TSNOW"
         THEN <<"TSNOW", "TAGSINIT">> \o AddDefaults(Tail(m))
         ELSE <<Head(m)>> \o AddDefaults(Tail(m))

\* variant: a default is only added where none follows yet
RECURSIVE AddMissingDefaults(_)
AddMissingDefaults(m) ==
    IF m = <<>> THEN <<>>
    ELSE IF Head(m) = "TSNOW" /\ (Len(m) = 1 \/ m[2] # "TAGSINIT")
         THEN <<"TSNOW", "TAGSINIT">> \o AddMissingDefaults(Tail(m))
         ELSE <<Head(m)>> \o AddMissingDefaults(Tail(m))

fix_other_screenshots(m) == AddDefaults(m)

RECURSIVE SubOk(_, _)
SubOk(s, from) ==
    IF OkStarts(s, from) = {}
    THEN SubSeq(s, from, Len(s))
    ELSE LET i == Min(OkStarts(s, from))
             e == OkEndOf(s, i)
         IN  SubSeq(s, from, i - 1) \o fix_other_screenshots(SubSeq(s, i, e))
                \o SubOk(s, e + 1)

FixOther(content) == SubOk(content, 1)

\* line 82: the same pattern without DOTALL, asking for "timestamp: now," directly
\* followed by a twelve-blank "tags: vec![],"; "." stops at a line break, which
\* only a WS, NLCLOSE, TAGSDECL, TAGSINIT or TAGSINIT12 token can hold
HasNewline(t) == t \in {"WS", "NLCLOSE", "TAGSDECL", "TAGSINIT", "TAGSINIT12"}

SameLine(s, a, b) == \A k \in a..b : ~HasNewline(s[k])

DoubleNows(s, i) ==
    {j \in (i + 2)..(Len(s) - 1) :
        s[j] = "TSNOW" /\ s[j + 1] = "TAGSINIT12" /\ SameLine(s, i + 2, j - 1)}

DoubleEnds(s, j) ==
    {l \in (j + 2)..(Len(s) - 1) :
        s[l] = "RBRACE" /\ s[l + 1] = "RPAREN" /\ SameLine(s, j + 2, l - 1)}

DoubleStarts(s, from) ==
    {i \in from..Len(s) :
        OkAt(s, i) /\ \E j \in DoubleNows(s, i) : DoubleEnds(s, j) # {}}

DoubleEndOf(s, i) ==
    Min(DoubleEnds(s, Min({j \in DoubleNows(s, i) : DoubleEnds(s, j) # {}}))) + 1

\* re.sub(..., lambda m: m.group(0), content): each match is put back as it was
RECURSIVE SubDouble(_, _)
SubDouble(s, from) ==
    IF DoubleStarts(s, from) = {}
    THEN SubSeq(s, from, Len(s))
    ELSE LET i == Min(DoubleStarts(s, from))
             e == DoubleEndOf(s, i)
         IN  SubSeq(s, from, i - 1) \o SubSeq(s, i, e) \o SubDouble(s, e + 1)

AvoidDoubleAdd(content) == SubDouble(content, 1)

\* ------------------------------------------------------- the files on disk
\* screenshot.rs as the script can find it: the Screenshot struct, a second
\* struct, get_screenshots, the capture functions and open_screenshots_folder,
\* each in the shapes below, in this order.
StructShapes ==
    { <<>>,
      <<"PUBSTRUCT", "SHOT", "FIELD", "TSU64", "NLCLOSE">>,
      <<"PUBSTRUCT", "SHOT", "TSU64", "FIELD", "NLCLOSE">> }

OtherShapes ==
    { <<>>, <<"PUBSTRUCT", "OTHERNAME", "FIELD", "TSU64", "NLCLOSE">> }

Guard == <<"LETDIR", "WS", "IFNOT", "WS", "RETOK", "WS", "RBRACE">>

Site(p) == <<"CODE", "SHOT", p, "FILENAME", "TIMESTAMP", "WS", "RBRACE", "CODE">>

GetShapes ==
    { <<>>,
      <<"GETHDR">> \o Guard \o Site("PATH") \o <<"NLCLOSE">>,
      <<"GETHDR">> \o Guard \o Site("PATHX") \o <<"NLCLOSE">>,
      <<"GETHDR">> \o Site("PATH") \o <<"NLCLOSE">>,
      <<"GETHDR">> \o Guard \o <<"CODE", "NLCLOSE">>,
      <<"GETHDR">> \o Guard
          \o <<"SHOT", "PATH", "FILENAME", "TIMESTAMP", "TAGS", "RBRACE">>
          \o Site("PATH") \o <<"NLCLOSE">> }

CaptureKinds == {"now", "none", "win"}

Capture(kind) ==
    CASE kind = "now" ->
           <<"OKP", "SHOT", "FIELD", "TSNOW", "WS", "RBRACE", "RPAREN", "NLCLOSE">>
      [] kind = "none" ->
           <<"OKP", "SHOT", "FIELD", "WS", "RBRACE", "RPAREN", "NLCLOSE">>
      [] kind = "win" ->
           <<"OKP", "SHOT", "TSNOW", "TAGSINIT12", "RBRACE", "RPAREN", "NLCLOSE">>

RECURSIVE Captures(_)
Captures(n) ==
    IF n = 0 THEN {<<>>}
    ELSE {c \o Capture(k) : c \in Captures(n - 1), k \in CaptureKinds}

CaptureShapes == UNION {Captures(n) : n \in 0..MaxSites}

AnchorShapes ==
    { <<>>,
      <<"ANCHOR", "CODE", "NLCLOSE">>,
      save_cmd \o <<"WS", "ANCHOR", "CODE", "NLCLOSE">> }

Inputs ==
    {a \o b \o c \o d \o e :
        a \in StructShapes, b \in OtherShapes, c \in GetShapes,
        d \in CaptureShapes, e \in AnchorShapes}

\* ------------------------------------------------------------ the program
VARIABLES
    pc,         \* where the script is
    content,    \* the text buffer
    file,       \* screenshot.rs on disk
    fileState,  \* "ok", "missing" or "undecodable"
    runs,       \* which run of the script this is
    input,      \* the file before the first run
    orig,       \* the file when this run started
    prev        \* the buffer as the last stage received it

vars == <<pc, content, file, fileState, runs, input, orig, prev>>

Init ==
    /\ file \in Inputs
    /\ fileState \in {"ok", "missing", "undecodable"}
    /\ pc = "load"
    /\ content = <<>>
    /\ runs = 1
    /\ input = file
    /\ orig = file
    /\ prev = <<>>

\* variant: the file is opened in a mode that truncates it ("w+")
LoadTruncating ==
    /\ pc = "load"
    /\ fileState = "ok"
    /\ file' = <<>>
    /\ content' = <<>>
    /\ prev' = <<>>
    /\ pc' = "struct"
    /\ UNCHANGED <<fileState, runs, input, orig>>

\* lines 6-7
Load ==
    /\ pc = "load"
    /\ fileState = "ok"
    /\ content' = file
    /\ prev' = file
    /\ pc' = "struct"
    /\ UNCHANGED <<file, fileState, runs, input, orig>>

\* lines 6-7: open() or read() raises and the script stops
LoadFails ==
    /\ pc = "load"
    /\ fileState # "ok"
    /\ pc' = "aborted"
    /\ UNCHANGED <<content, file, fileState, runs, input, orig, prev>>

\* variant: a stage that raises when its pattern is missing
Stage1Strict ==
    /\ pc = "struct"
    /\ content' = UpdateStruct(content)
    /\ prev' = content
    /\ pc' = IF StructStarts(content, 1) = {} THEN "aborted" ELSE "get"
    /\ UNCHANGED <<file, fileState, runs, input, orig>>

\* lines 10-15
Stage1 ==
    /\ pc = "struct"
    /\ content' = UpdateStruct(content)
    /\ prev' = content
    /\ pc' = "get"
    /\ UNCHANGED <<file, fileState, runs, input, orig>>

\* line 45
Stage2 ==
    /\ pc = "get"
    /\ content' = UpdateGetScreenshots(content)
    /\ prev' = content
    /\ pc' = "save"
    /\ UNCHANGED <<file, fileState, runs, input, orig>>

\* lines 72-73
Stage3 ==
    /\ pc = "save"
    /\ content' = InsertSaveCmd(content)
    /\ prev' = content
    /\ pc' = "fix"
    /\ UNCHANGED <<file, fileState, runs, input, orig>>

\* lines 79-85
Stage4 ==
    /\ pc = "fix"
    /\ content' = AvoidDoubleAdd(FixOther(content))
    /\ prev' = content
    /\ pc' = "write"
    /\ UNCHANGED <<file, fileState, runs, input, orig>>

\* line 87: open(path, "w") truncates the file
WriteOpen ==
    /\ pc = "write"
    /\ file' = <<>>
    /\ pc' = "writing"
    /\ UNCHANGED <<content, fileState, runs, input, orig, prev>>

\* line 88 and the end of the with block: the buffer is written and flushed
WriteData ==
    /\ pc = "writing"
    /\ file' = content
    /\ pc' = "done"
    /\ UNCHANGED <<content, fileState, runs, input, orig, prev>>

\* the process is stopped before the file is opened for writing
InterruptBefore ==
    /\ pc \in {"load", "struct", "get", "save", "fix", "write"}
    /\ pc' = "killed"
    /\ UNCHANGED <<content, file, fileState, runs, input, orig, prev>>

\* the process is stopped while writing: some prefix of the buffer is on disk
InterruptWrite ==
    /\ pc = "writing"
    /\ \E n \in 0..(Len(content) - 1) : file' = SubSeq(content, 1, n)
    /\ pc' = "torn"
    /\ UNCHANGED <<content, fileState, runs, input, orig, prev>>

\* the script is started again on the file it wrote
Rerun ==
    /\ pc = "done"
    /\ runs < MaxRuns
    /\ runs' = runs + 1
    /\ pc' = "load"
    /\ content' = <<>>
    /\ prev' = <<>>
    /\ orig' = file
    /\ UNCHANGED <<file, fileState, input>>

Next ==
    \/ Load
    \/ LoadFails
    \/ Stage1
    \/ Stage2
    \/ Stage3
    \/ Stage4
    \/ WriteOpen
    \/ WriteData
    \/ InterruptBefore
    \/ InterruptWrite
    \/ Rerun

Spec == Init /\ [][Next]_vars

\* ------------------------------------------- get_screenshots bodies at large
\* a second set of files: get_screenshots alone, its body any sequence of up to
\* MaxPieces of the chunks the two body patterns read
BodyPieces ==
    { <<"SHOT">>, <<"FILENAME">>, <<"TIMESTAMP">>,
      <<"TIMESTAMP", "WS", "RBRACE">>, <<"RBRACE">>, <<"CODE">>, Guard }

RECURSIVE Bodies(_)
Bodies(n) ==
    IF n = 0 THEN {<<>>}
    ELSE Bodies(n - 1) \cup {b \o q : b \in Bodies(n - 1), q \in BodyPieces}

InitBodies ==
    /\ file \in {<<"GETHDR">> \o b \o <<"NLCLOSE">> : b \in Bodies(MaxPieces)}
    /\ fileState = "ok"
    /\ pc = "load"
    /\ content = <<>>
    /\ runs = 1
    /\ input = file
    /\ orig = file
    /\ prev = <<>>

\* the script run to its end, again and again
NextRun ==
    \/ Load
    \/ Stage1
    \/ Stage2
    \/ Stage3
    \/ Stage4
    \/ WriteOpen
    \/ WriteData
    \/ Rerun

SpecBodies == InitBodies /\ [][NextRun]_vars

\* ------------------------------------------------------------- the claims
PostStage1 == {"get", "save", "fix", "write", "writing", "done"}
PostStage2 == {"save", "fix", "write", "writing", "done"}
PostStage3 == {"fix", "write", "writing", "done"}
PostStage4 == {"write", "writing", "done"}

\* the closing "\n}" of the item that starts at i
CloseOf(s, i) == Min({c \in (i + 1)..Len(s) : s[c] = "NLCLOSE"})

\* the text of get_screenshots in s, from after its header to its closing brace
GetRegion(s) == SubSeq(s, Min(Occurrences(s, "GETHDR")) + 1,
                       CloseOf(s, Min(Occurrences(s, "GETHDR"))) - 1)

\* how many "tags: vec![]," follow position k directly
RECURSIVE TagsAfter(_, _)
TagsAfter(s, k) ==
    IF k + 1 <= Len(s) /\ s[k + 1] = "TAGSINIT" THEN 1 + TagsAfter(s, k + 1) ELSE 0

\* no mark of an earlier run
Unpatched(s) ==
    \A t \in {"TAGSDECL", "METAPATH", "ALLTAGS", "LOOKUP", "TAGS", "SAVEHDR",
              "TAGSINIT", "TAGSINIT12"} : Count(s, t) = 0

\* the input the script was written for
WellFormed(s) ==
    /\ Unpatched(s)
    /\ Cardinality({i \in 1..Len(s) : StructAt(s, i)}) = 1
    /\ \A i \in 1..Len(s) : StructAt(s, i) => s[CloseOf(s, i) - 1] = "TSU64"
    /\ Count(s, "GETHDR") = 1
    /\ Cardinality(GuardStarts(GetRegion(s), 1)) = 1
    /\ Count(GetRegion(s), "SHOT") = 1
    /\ ConsStarts(GetRegion(s), 1) # {}
    /\ Count(s, "ANCHOR") = 1
    /\ \A i \in 1..Len(s) : OkAt(s, i) =>
          \E j \in (i + 2)..Len(s) :
              /\ s[j] = "TSNOW"
              /\ Count(SubSeq(s, i, j - 1), "RPAREN") = 0
              /\ Count(SubSeq(s, i + 2, CloseOf(s, i)), "TSNOW") = 1

\* C1: one run on a well-formed, unpatched file leaves exactly one
\* "pub tags: Vec<String>," (inside the Screenshot struct, after its terminal
\* timestamp field), exactly one metadata-loading preamble in get_screenshots,
\* exactly one save_screenshot_tags, and exactly one "tags: vec![]," after every
\* "timestamp: now,".
C1_SingleRunPatchesOnce ==
    (runs = 1 /\ pc \in PostStage4 /\ WellFormed(input)) =>
        /\ Count(content, "TAGSDECL") = 1
        /\ \E i \in 1..Len(content) :
              /\ StructAt(content, i)
              /\ content[CloseOf(content, i) - 1] = "TAGSDECL"
              /\ content[CloseOf(content, i) - 2] = "TSU64"
        /\ Count(GetRegion(content), "METAPATH") = 1
        /\ Count(GetRegion(content), "ALLTAGS") = 1
        /\ Count(content, "SAVEHDR") = 1
        /\ \A k \in Occurrences(content, "TSNOW") : TagsAfter(content, k) = 1
        /\ Count(content, "TAGSINIT") = Count(content, "TSNOW")

C1_Witness ==
    /\ runs = 1
    /\ pc = "done"
    /\ WellFormed(input)
    /\ Count(input, "OTHERNAME") = 1
    /\ Count(content, "TSNOW") = 2
    /\ Count(content, "TAGSINIT") = 2

\* none of the four patterns the stages look for
NoPattern(s) ==
    /\ StructStarts(s, 1) = {}
    /\ Count(s, "GETHDR") = 0
    /\ Count(s, "ANCHOR") = 0
    /\ OkStarts(s, 1) = {}

\* C2: when none of the four patterns occurs in the loaded buffer, no stage
\* raises, every stage leaves the buffer as loaded, and the buffer written back is
\* the buffer that was loaded.
C2_NoPatternNoChange ==
    (fileState = "ok" /\ NoPattern(orig)) =>
        /\ pc # "aborted"
        /\ pc \in PostStage1 => content = orig
        /\ pc = "done" => file = orig

C2_Witness ==
    /\ pc = "done"
    /\ NoPattern(orig)
    /\ Count(orig, "PUBSTRUCT") > 0
    /\ Count(orig, "OKP") > 0
    /\ file = orig

\* C3: stage 3 changes the buffer only when "pub fn save_screenshot_tags" is not
\* in it, and then by putting save_cmd directly in front of the anchor; so a
\* file with one anchor holds exactly one save_screenshot_tags after any number
\* of runs.
C3_SaveCmdOnce ==
    /\ (pc = "fix" /\ content # prev) =>
          /\ SaveAbsent(prev)
          /\ \E a \in Occurrences(prev, "ANCHOR") :
                content = SubSeq(prev, 1, a - 1) \o save_cmd \o <<"WS">>
                             \o SubSeq(prev, a, Len(prev))
    /\ (pc \in PostStage3 /\ Count(input, "ANCHOR") = 1) =>
          Count(content, "SAVEHDR") = 1

C3_Witness ==
    /\ pc = "done"
    /\ runs >= 2
    /\ Count(input, "ANCHOR") = 1
    /\ Count(input, "SAVEHDR") = 0
    /\ Count(file, "SAVEHDR") = 1

\* C4: every run puts one more "tags: vec![]," after every "timestamp: now," of
\* an Ok(Screenshot { ... }) match, the pass of line 82 takes none away, and after
\* k runs every such field is followed by k of them.
C4_BackfillEveryRun ==
    /\ pc = "write" =>
          Count(content, "TAGSINIT") = Count(prev, "TAGSINIT") + Count(prev, "TSNOW")
    /\ pc \in PostStage4 =>
          \A k \in Occurrences(content, "TSNOW") : TagsAfter(content, k) = runs

C4_Witness ==
    /\ pc = "done"
    /\ runs = 2
    /\ \E k \in Occurrences(file, "TSNOW") : TagsAfter(file, k) = 2

\* C5: up to the moment the file is opened for writing, and after a failed load
\* or an interruption before that moment, the file is what it was when the run
\* started; a failed load is never followed by a write; the file holds something
\* other than the original or the whole buffer only during, or after an
\* interruption of, the write.
C5_OnlyWriterTouchesFile ==
    /\ pc \in {"load", "struct", "get", "save", "fix", "write", "killed", "aborted"}
          => file = orig
    /\ fileState # "ok" => (pc \in {"load", "aborted", "killed"} /\ file = input)
    /\ (file # orig /\ file # content) => pc \in {"writing", "torn"}

C5_Witness ==
    /\ pc = "killed"
    /\ content # <<>>
    /\ content # file
    /\ file = orig

\* C6 (as claimed): whenever stage 1 changes the buffer, the one change is a
\* "pub tags: Vec<String>," between the terminal "pub timestamp: u64," of the
\* Screenshot struct and that struct's own closing brace.
C6_InsertedInScreenshotStruct ==
    (pc = "get" /\ content # prev) =>
        \E i \in 1..Len(prev) :
            /\ StructAt(prev, i)
            /\ prev[CloseOf(prev, i) - 1] = "TSU64"
            /\ content = SubSeq(prev, 1, CloseOf(prev, i) - 1) \o <<"TAGSDECL">>
                            \o SubSeq(prev, CloseOf(prev, i), Len(prev))

\* C7 (as claimed): stage 2 keeps every path, filename and timestamp value of the
\* constructions it rewrites, and adds one lookup and one "tags," per rewritten
\* construction.
C7_EquivalentConstruction ==
    pc = "save" =>
        /\ \A t \in {"PATH", "PATHX", "FILENAME", "TIMESTAMP", "SHOT"} :
              Count(content, t) = Count(prev, t)
        /\ \E n \in 0..Len(content) :
              /\ Count(content, "LOOKUP") = Count(prev, "LOOKUP") + n
              /\ Count(content, "TAGS") = Count(prev, "TAGS") + n

\* the number of non-overlapping matches of the construction pattern in s
RECURSIVE ConsCount(_, _)
ConsCount(s, from) ==
    IF ConsStarts(s, from) = {} THEN 0
    ELSE 1 + ConsCount(s, SkipWs(s, ConsTsOf(s, Min(ConsStarts(s, from))) + 1) + 1)

\* C8: the injected preamble holds no match of the construction pattern; the
\* construction pass, run after the injection, adds as many lookups as the body
\* had matches before the injection; and the result is the one the two passes
\* give in the other order, so no rewrite falls inside an injected preamble.
C8_PassesCompose ==
    /\ ConsStarts(Injection, 1) = {}
    /\ (pc = "save" /\ GetStarts(prev, 1) # {}) =>
          LET i == Min(GetStarts(prev, 1)) IN
          /\ Count(content, "LOOKUP") =
                Count(prev, "LOOKUP") + ConsCount(Body(prev, i), 1)
          /\ content = SubSeq(prev, 1, i)
                          \o SubGuard(SubCons(Body(prev, i), 1), 1)
                          \o SubSeq(prev, CloseOf(prev, i), Len(prev))

C8_Witness ==
    /\ pc = "save"
    /\ Count(content, "LOOKUP") > Count(prev, "LOOKUP")
    /\ Count(content, "METAPATH") > Count(prev, "METAPATH")

\* C9: with the file readable no stage raises, whatever patterns are missing;
\* a stage whose pattern is missing hands the buffer on as it received it, a
\* stage whose pattern is there makes its edit (stage 3 behind its presence
\* guard), and the writer puts the buffer, patched in part or in full, on disk.
C9_MissesAreSilent ==
    /\ fileState = "ok" => pc # "aborted"
    /\ pc = "get" =>
          IF StructStarts(prev, 1) = {} THEN content = prev
          ELSE Count(content, "TAGSDECL") > Count(prev, "TAGSDECL")
    /\ pc = "save" =>
          IF GetStarts(prev, 1) = {} THEN content = prev
          ELSE LET body == Body(prev, Min(GetStarts(prev, 1))) IN
               (GuardStarts(body, 1) # {} \/ ConsStarts(body, 1) # {}) =>
                   /\ content # prev
                   /\ Count(content, "METAPATH") + Count(content, "LOOKUP") > 0
    /\ pc = "fix" =>
          IF Count(prev, "ANCHOR") = 0 THEN content = prev
          ELSE SaveAbsent(prev) =>
                  Count(content, "SAVEHDR") = Count(prev, "ANCHOR")
    /\ pc = "write" =>
          IF OkStarts(prev, 1) = {} THEN content = prev
          ELSE Count(content, "TAGSINIT") > Count(prev, "TAGSINIT")
    /\ pc = "done" => file = content

C9_Witness ==
    /\ pc = "done"
    /\ runs = 1
    /\ StructStarts(input, 1) = {}
    /\ Count(input, "ANCHOR") = 0
    /\ GetStarts(input, 1) # {}
    /\ Count(file, "TAGSDECL") = 0
    /\ Count(file, "METAPATH") = 1
    /\ Count(file, "TAGSINIT") > 0

\* C10: the injected text itself matches the guard pattern, so every run on a
\* well-formed file adds one more metadata load: after k runs get_screenshots
\* holds k "let meta_path = ..." loads.
C10_PreambleEveryRun ==
    /\ GuardStarts(Injection, 1) # {}
    /\ (pc \in PostStage2 /\ WellFormed(input)) =>
          /\ Count(GetRegion(content), "METAPATH") = runs
          /\ Count(GetRegion(content), "ALLTAGS") = runs

C10_Witness ==
    /\ pc = "done"
    /\ runs = 3
    /\ WellFormed(input)
    /\ Count(GetRegion(file), "METAPATH") = 3

====
